---- MODULE Spec2Model ----
(***************************************************************************)
(* glTF importer, node materialisation (BlenderNode) over the VNode forest. *)
(*                                                                         *)
(* gltf2_blender_node.py walks gltf.vnodes from the root, creating one host *)
(* object per Object-kind VNode and the bones of every armature.  The VNode *)
(* forest itself is built by the hierarchy builder, whose code is not part  *)
(* of the sources at hand; it is modelled from sections 3 and 4.3 of the    *)
(* specification (compute_vnodes and its helpers below).                    *)
(***************************************************************************)
EXTENDS Integers, Sequences, FiniteSets, TLC

(* ------------------------------ bounds --------------------------------- *)
NumNodes == 4       \* glTF nodes in the document
MaxJoints == 2      \* joints in the skin's joint list
MaxAttached == 1    \* nodes that reference the mesh, camera or light
NumMeshes == 2      \* len(gltf.data.meshes)
NumCameras == 1     \* len(gltf.data.cameras)
NumLights == 1      \* number of KHR_lights_punctual lights
MaxCoord == 1       \* largest vector coordinate of a bone transform

(* ----------------------------- encodings ------------------------------- *)
\* Python's None, for optional indices and handles (all real ones are >= 0).
None == -1

VNode_Object == "Object"
VNode_Bone == "Bone"
VNode_DummyRoot == "DummyRoot"

NodeIds == 0 .. (NumNodes - 1)
\* The synthetic id of the DummyRoot ('root' in the importer): the one id
\* that is not an index into gltf.data.nodes.
RootId == NumNodes
\* isinstance(vnode_id, int): the id came from a glTF node.
IsGltfNode(id) == id \in NodeIds

Range(s) == {s[k] : k \in 1 .. Len(s)}

Contains(s, x) == \E k \in 1 .. Len(s) : s[k] = x

\* f, evaluated once at every point of its domain.
Tabulated(f) == f @@ <<>>

\* The members of S as a list, largest first: the documents list children,
\* scene roots and joints in an order that is not the order of the indices.
RECURSIVE Ordered(_)
Ordered(S) ==
    IF S = {} THEN <<>>
    ELSE LET m == CHOOSE x \in S : \A y \in S : y <= x
         IN <<m>> \o Ordered(S \ {m})

(* ------------------------- the glTF document --------------------------- *)
\* Parent maps of forests over the node array: parent[i] < i, or None.
ParentMaps ==
    {p \in [NodeIds -> (NodeIds \cup {None})] : \A i \in NodeIds : p[i] < i}

\* An optional list (a node's or a mesh's weights): None, or a list.
NoneList == [is_none |-> TRUE, items |-> <<>>]
List(xs) == [is_none |-> FALSE, items |-> xs]
\* Python's 'w or []': None and the empty list both give the empty list.
or_empty(w) == IF w.is_none THEN <<>> ELSE w.items

NoAttachment ==
    [mesh |-> None, skin |-> None, camera |-> None, light |-> None,
     weights |-> NoneList, weight_animation |-> FALSE]

\* What a node may reference; the nodes of one document that reference
\* anything reference the same (instances of one mesh, camera or light).
\* An index equal to the length of its array is out of range; skin 1 is out
\* of range (the document holds one skin).
Attachments ==
    {[NoAttachment EXCEPT !.mesh = 0, !.skin = s] : s \in {None, 0, 1}}
    \cup {[NoAttachment EXCEPT !.mesh = NumMeshes]}
    \cup {[NoAttachment EXCEPT !.camera = c] : c \in {0, NumCameras}}
    \cup {[NoAttachment EXCEPT !.light = l] : l \in {0, NumLights}}

\* gltf.data.meshes[m] of a mesh without shape keys.
PlainMesh == [shapekey_names |-> <<>>, weights |-> NoneList]

MakeDocument(par, joints, att) ==
    [nodes |-> Tabulated([i \in NodeIds |->
                  [children |-> Ordered({c \in NodeIds : par[c] = i}),
                   mesh |-> IF i \in DOMAIN att THEN att[i].mesh ELSE None,
                   skin |-> IF i \in DOMAIN att THEN att[i].skin ELSE None,
                   camera |-> IF i \in DOMAIN att THEN att[i].camera ELSE None,
                   light |-> IF i \in DOMAIN att THEN att[i].light ELSE None,
                   weights |-> IF i \in DOMAIN att THEN att[i].weights ELSE NoneList,
                   weight_animation |->
                       IF i \in DOMAIN att THEN att[i].weight_animation ELSE FALSE]]),
     meshes |-> [m \in 1 .. NumMeshes |-> PlainMesh],
     skins |-> << [joints |-> joints] >>,
     scene |-> Ordered({c \in NodeIds : par[c] = None})]

(* --------------------- hierarchy builder (from the spec) ---------------- *)
parent_of(g, i) ==
    LET ps == {k \in DOMAIN g.nodes : i \in Range(g.nodes[k].children)}
    IN IF ps = {} THEN None ELSE CHOOSE k \in ps : TRUE

\* The proper ancestors of i under the parent map p.
RECURSIVE Ancestors(_, _)
Ancestors(p, i) == IF p[i] = None THEN {} ELSE {p[i]} \cup Ancestors(p, p[i])

\* The nodes that are an ancestor of every joint.
CommonAncestors(anc, joints) ==
    {a \in DOMAIN anc : \A k \in 1 .. Len(joints) : a \in anc[joints[k]]}

\* The deepest node that is an ancestor of every joint; None for a skin that
\* cannot be resolved (no joints, or no node above all of them).
LowestCommonAncestor(anc, joints) ==
    LET ca == CommonAncestors(anc, joints)
    IN IF Len(joints) = 0 \/ ca = {} THEN None
       ELSE CHOOSE a \in ca : \A b \in ca : Cardinality(anc[b]) <= Cardinality(anc[a])

\* The nearest ancestor of n that is an armature.
BoneArmature(anc, armas, n) ==
    LET as == anc[n] \cap armas
    IN IF as = {} THEN None
       ELSE CHOOSE a \in as : \A b \in as : Cardinality(anc[b]) <= Cardinality(anc[a])

\* Step 2 of the builder: the joints of every skin become bones and the
\* lowest common ancestor of the joints becomes the armature.  The nodes
\* between a joint and its armature are bones too: the parent of a bone is
\* a bone or the armature root (section 4.4).
mark_bones_and_armas(g) ==
    LET p == Tabulated([i \in DOMAIN g.nodes |-> parent_of(g, i)])
        anc == Tabulated([i \in DOMAIN g.nodes |-> Ancestors(p, i)])
        arma_of == Tabulated([s \in 1 .. Len(g.skins) |->
                                LowestCommonAncestor(anc, g.skins[s].joints)])
        armas == {arma_of[s] : s \in 1 .. Len(g.skins)} \ {None}
        bones == {n \in DOMAIN g.nodes :
                    \E s \in 1 .. Len(g.skins) :
                        /\ arma_of[s] # None
                        /\ \E k \in 1 .. Len(g.skins[s].joints) :
                              LET j == g.skins[s].joints[k]
                              IN n = j \/ (n \in anc[j] /\ arma_of[s] \in anc[n])}
    IN [parent |-> p, ancestors |-> anc, arma_of |-> arma_of,
        armas |-> armas \ bones, bones |-> bones,
        bone_arma |-> Tabulated([n \in DOMAIN g.nodes |->
                         IF n \in bones THEN BoneArmature(anc, armas \ bones, n) ELSE None])]

\* Faulty variant: a DummyRoot for every scene.
NeedsDummyRoot_always(g) == Len(g.scene) >= 0

\* Step 3 of the builder: a DummyRoot unless the scene has exactly one root.
NeedsDummyRoot(g) == Len(g.scene) # 1

\* Faulty variant: the scene roots are listed under the DummyRoot but keep no parent.
vnode_parent_unlinked(g, marks, id) == marks.parent[id]

\* The parent of the VNode of glTF node id: its glTF parent, or the DummyRoot
\* for a scene root reparented under it.
vnode_parent(g, marks, id) ==
    IF marks.parent[id] # None THEN marks.parent[id]
    ELSE IF NeedsDummyRoot(g) /\ id \in Range(g.scene) THEN RootId ELSE None

\* Faulty variant: the association is kept on the armature node too.
attached_node_idx_shared(marks, id, idx) == IF idx # None THEN id ELSE None

\* The mesh, camera or light association of a VNode (the glTF node whose
\* index it takes): populated for a node that references one, and never on
\* an armature (section 3: mutually exclusive with is_arma).
attached_node_idx(marks, id, idx) ==
    IF idx # None /\ id \notin marks.armas THEN id ELSE None

\* Steps 1 to 3: one VNode per glTF node, the marks of step 2, the DummyRoot.
build_vnodes(g, marks) ==
    LET ids == DOMAIN g.nodes \cup (IF NeedsDummyRoot(g) THEN {RootId} ELSE {})
    IN [id \in ids |->
          IF id = RootId
          THEN [type |-> VNode_DummyRoot, parent |-> None, children |-> g.scene,
                is_arma |-> FALSE, bone_arma |-> None,
                mesh_node_idx |-> None, camera_node_idx |-> None,
                light_node_idx |-> None,
                blender_object |-> None, blender_bone_name |-> None]
          ELSE [type |-> IF id \in marks.bones THEN VNode_Bone ELSE VNode_Object,
                parent |-> vnode_parent(g, marks, id),
                children |-> g.nodes[id].children,
                is_arma |-> id \in marks.armas,
                bone_arma |-> marks.bone_arma[id],
                mesh_node_idx |-> attached_node_idx(marks, id, g.nodes[id].mesh),
                camera_node_idx |-> attached_node_idx(marks, id, g.nodes[id].camera),
                light_node_idx |-> attached_node_idx(marks, id, g.nodes[id].light),
                blender_object |-> None, blender_bone_name |-> None]]

compute_vnodes(g) == build_vnodes(g, mark_bones_and_armas(g))

\* The single entry point the builder guarantees to its callers.
EntryPoint(g) == IF NeedsDummyRoot(g) THEN RootId ELSE g.scene[1]

\* Documents the model covers.  The skin has no joints, or its joints have a
\* common ancestor among the glTF nodes.
SkinOk(g, marks) ==
    \A s \in 1 .. Len(g.skins) :
        g.skins[s].joints = <<>> \/ marks.arma_of[s] # None

\* The nodes of the skeleton reference no mesh, camera or light: create_vnode
\* never turns them into objects.  The node that becomes the armature may
\* reference one.
AttachmentsOk(marks, att) == DOMAIN att \cap marks.bones = {}

(* ------------------------------- state --------------------------------- *)
VARIABLES
    gltf,        \* gltf.data: nodes, skins, scene (read-only)
    vnodes,      \* gltf.vnodes: id -> VNode
    objects,     \* bpy.data.objects, in creation order; a handle is an index
    edit_bones,  \* the edit bones created so far, in creation order
    bone_ids,    \* the bone_ids list of the last create_bones call
    stack,       \* pending create_vnode calls, innermost first
    bones_pc,    \* where create_bones stands: "none", "edit", "parents", "pose"
    visited,     \* ids create_vnode was called on, in call order
    writes,      \* id -> number of assignments to vnode.blender_object
    status,      \* "running", "done", or "raised"
    exc,         \* the exception that ended the run, or "none"
    meshes,      \* bpy.data.meshes, in creation order; a mesh's name is its index
    blender_name,\* mesh index -> pymesh.blender_name, the cache: key -> mesh name
    bone,        \* pose computation: the bone's TRS and edit-bone transform
    pose         \* pose computation: the pose bone written by create_bones

vars == <<gltf, vnodes, objects, edit_bones, bone_ids, stack, bones_pc, visited,
          writes, status, exc, meshes, blender_name, bone, pose>>

(* ------------------------- host object creation ------------------------ *)
\* bpy.data.objects.new(name, data): data is the kind of datablock, "EMPTY"
\* for None.  The vnode field records which VNode the object was made for.
NewObject(data, vnode_id) ==
    [data |-> data, vnode |-> vnode_id, parent |-> None, parent_type |-> "OBJECT",
     parent_bone |-> None, modifiers |-> <<>>, linked |-> FALSE, mesh |-> None]

\* The outcome of a call: the object built so far, and bpy.data.meshes and
\* the mesh caches as the call leaves them (unchanged unless said otherwise).
Returned(obj) ==
    [raised |-> FALSE, exc |-> "none", obj |-> obj,
     meshes |-> meshes, blender_name |-> blender_name]
Raised(e, obj) ==
    [raised |-> TRUE, exc |-> e, obj |-> obj,
     meshes |-> meshes, blender_name |-> blender_name]

\* BlenderCamera.create / BlenderLight.create: an index outside the array is
\* no attachment, and the node degrades to an empty (section 4.3).
BlenderCamera_create(camera) ==
    IF 0 <= camera /\ camera < NumCameras THEN "CAMERA" ELSE "EMPTY"

BlenderLight_create(light) ==
    IF 0 <= light /\ light < NumLights THEN "LIGHT" ELSE "EMPTY"

\* Faulty variant: the first joint itself is taken for the armature.
setup_skinning_joint_as_arma(pynode, obj) ==
    IF ~(pynode.skin < Len(gltf.skins))
    THEN Raised("IndexError", obj)
    ELSE LET pyskin == gltf.skins[pynode.skin + 1]
         IN IF Len(pyskin.joints) = 0
            THEN Raised("IndexError", obj)
            ELSE LET arma == vnodes[pyskin.joints[1]]
                 IN Returned([obj EXCEPT !.modifiers =
                        Append(@, [type |-> "ARMATURE",
                                   arma |-> pyskin.joints[1],
                                   object |-> arma.blender_object])])

setup_skinning(pynode, obj) ==
    IF ~(pynode.skin < Len(gltf.skins))
    THEN Raised("IndexError", obj)                  \* gltf.data.skins[pynode.skin]
    ELSE LET pyskin == gltf.skins[pynode.skin + 1]
         IN IF Len(pyskin.joints) = 0
            THEN Raised("IndexError", obj)          \* pyskin.joints[0]
            ELSE LET first_bone == vnodes[pyskin.joints[1]]
                 IN IF first_bone.bone_arma \notin DOMAIN vnodes
                    THEN Raised("KeyError", obj)    \* gltf.vnodes[None]
                    ELSE LET arma == vnodes[first_bone.bone_arma]
                         IN Returned([obj EXCEPT !.modifiers =
                                Append(@, [type |-> "ARMATURE",
                                           arma |-> first_bone.bone_arma,
                                           object |-> arma.blender_object])])

\* "Key to cache the Blender mesh by": a tuple, or the empty tuple for the
\* code's None (don't use the cache at all).
cache_key(pymesh, pynode) ==
    IF pymesh.shapekey_names = <<>>
    THEN << pynode.skin >>
    ELSE IF pynode.weight_animation = FALSE
    THEN << pynode.skin, or_empty(pynode.weights) >>
    ELSE <<>>

\* BlenderMesh.create(gltf, mesh, skin): a new mesh datablock.  The fields
\* key and node record the call that made it.
BlenderMesh_create(mesh, skin, key, vnode_id) ==
    [mesh |-> mesh, skin |-> skin, key |-> key, node |-> vnode_id, key_values |-> <<>>]

\* Faulty variant: the cache is looked up but never filled.
cached_mesh_unrecorded(pynode, key, vnode_id) ==
    [mesh |-> Len(meshes) + 1,
     meshes |-> Append(meshes, BlenderMesh_create(pynode.mesh, pynode.skin, key, vnode_id)),
     blender_name |-> blender_name]

\* The mesh of create_mesh_object: the cached one, or a new one, recorded
\* in the cache under its key if it has one.
cached_mesh(pynode, key, vnode_id) ==
    IF key # <<>> /\ key \in DOMAIN blender_name[pynode.mesh]
    THEN [mesh |-> blender_name[pynode.mesh][key],
          meshes |-> meshes, blender_name |-> blender_name]
    ELSE [mesh |-> Len(meshes) + 1,
          meshes |-> Append(meshes,
                        BlenderMesh_create(pynode.mesh, pynode.skin, key, vnode_id)),
          blender_name |->
              IF key # <<>>
              THEN [blender_name EXCEPT ![pynode.mesh] = (key :> (Len(meshes) + 1)) @@ @]
              ELSE blender_name]

\* set_morph_weights: the shape-key values of the object's mesh.
set_morph_weights(pynode, pymesh, ms, mesh) ==
    LET w1 == or_empty(pynode.weights)
        weights == IF w1 # <<>> THEN w1 ELSE or_empty(pymesh.weights)
        n == Len(pymesh.shapekey_names)
    IN IF Len(weights) > n
       THEN [raised |-> TRUE,                  \* pymesh.shapekey_names[i]
             meshes |-> [ms EXCEPT ![mesh].key_values = SubSeq(weights, 1, n)]]
       ELSE [raised |-> FALSE,
             meshes |-> [ms EXCEPT ![mesh].key_values = weights]]

create_mesh_object(vnode_id) ==
    LET vnode == vnodes[vnode_id]
        pynode == gltf.nodes[vnode.mesh_node_idx]
    IN IF ~(0 <= pynode.mesh /\ pynode.mesh < NumMeshes)
       THEN Returned(NewObject("EMPTY", vnode_id))
       ELSE LET pymesh == gltf.meshes[pynode.mesh + 1]
                c == cached_mesh(pynode, cache_key(pymesh, pynode), vnode_id)
                obj == [NewObject("MESH", vnode_id) EXCEPT !.mesh = c.mesh]
                m == IF pymesh.shapekey_names # <<>>
                     THEN set_morph_weights(pynode, pymesh, c.meshes, c.mesh)
                     ELSE [raised |-> FALSE, meshes |-> c.meshes]
                r == IF m.raised THEN Raised("IndexError", obj)
                     ELSE IF pynode.skin # None THEN setup_skinning(pynode, obj)
                     ELSE Returned(obj)
            IN [r EXCEPT !.meshes = m.meshes, !.blender_name = c.blender_name]

\* The object create_object builds, before it is stored in the VNode.
create_object_data(vnode_id) ==
    LET vnode == vnodes[vnode_id]
    IN IF vnode.mesh_node_idx # None
       THEN create_mesh_object(vnode_id)
       ELSE IF vnode.camera_node_idx # None
       THEN Returned(NewObject(
                BlenderCamera_create(gltf.nodes[vnode.camera_node_idx].camera), vnode_id))
       ELSE IF vnode.light_node_idx # None
       THEN Returned(NewObject(
                BlenderLight_create(gltf.nodes[vnode.light_node_idx].light), vnode_id))
       ELSE IF vnode.is_arma
       THEN Returned(NewObject("ARMATURE", vnode_id))
       ELSE Returned(NewObject("EMPTY", vnode_id))

\* "Set parent" of create_object.
set_parent(vnode_id, obj) ==
    LET vnode == vnodes[vnode_id]
    IN IF vnode.parent = None THEN obj
       ELSE LET parent_vnode == vnodes[vnode.parent]
            IN IF parent_vnode.type = VNode_Object
               THEN [obj EXCEPT !.parent = parent_vnode.blender_object]
               ELSE IF parent_vnode.type = VNode_Bone
               THEN [obj EXCEPT !.parent = vnodes[parent_vnode.bone_arma].blender_object,
                                !.parent_type = "BONE",
                                !.parent_bone = parent_vnode.blender_bone_name]
               ELSE obj

create_object(vnode_id) ==
    LET r == create_object_data(vnode_id)
    IN IF r.raised THEN r
       ELSE [r EXCEPT !.obj = [set_parent(vnode_id, r.obj) EXCEPT !.linked = TRUE]]

(* -------------------------------- bones -------------------------------- *)
RECURSIVE visit(_, _)
RECURSIVE visit_children(_, _)
\* Faulty variant: the walk does not descend into the children of a bone.
visit_flat(vn, id) == IF vn[id].type = VNode_Bone THEN <<id>> ELSE <<>>

\* The depth-first walk of create_bones: the bone ids below id, id first.
visit(vn, id) ==
    IF vn[id].type = VNode_Bone
    THEN <<id>> \o visit_children(vn, vn[id].children)
    ELSE <<>>

visit_children(vn, children) ==
    IF children = <<>> THEN <<>>
    ELSE visit(vn, Head(children)) \o visit_children(vn, Tail(children))

\* "Find all bones for this arma".
find_bones(vn, arma_id) == visit_children(vn, vn[arma_id].children)

\* The edit bone created for a VNode; its name is unique to the VNode.
NewEditBone(id, arma_id) == [name |-> id, arma |-> arma_id, parent |-> None, posed |-> FALSE]

\* Faulty variant: no parent link is set.
EditBoneParent_unlinked(b) == b

\* "Set all bone parents", for one bone.
EditBoneParent(b) ==
    LET vnode == vnodes[b.name]
        parent_vnode == vnodes[vnode.parent]
    IN IF parent_vnode.type = VNode_Bone
       THEN [b EXCEPT !.parent = parent_vnode.blender_bone_name]
       ELSE b

(* --------------------------- transform math ---------------------------- *)
\* Vectors are integer triples.  A rotation is a unit quaternion <<w, x, y, z>>
\* stored doubled, so that the 24 Hurwitz units (the rotations of the
\* tetrahedral group, which do not commute) have integer components:
\* <<2, 0, 0, 0>> is the identity and <<1, 1, 1, 1>> is (1 + i + j + k) / 2.
Quaternions ==
    {q \in [1 .. 4 -> -2 .. 2] :
        /\ q[1] * q[1] + q[2] * q[2] + q[3] * q[3] + q[4] * q[4] = 4
        /\ \A k \in 2 .. 4 : (q[k] - q[1]) % 2 = 0}

\* The Hamilton product of two 4-tuples.
Hamilton(a, b) ==
    << a[1] * b[1] - a[2] * b[2] - a[3] * b[3] - a[4] * b[4],
       a[1] * b[2] + a[2] * b[1] + a[3] * b[4] - a[4] * b[3],
       a[1] * b[3] - a[2] * b[4] + a[3] * b[1] + a[4] * b[2],
       a[1] * b[4] + a[2] * b[3] - a[3] * b[2] + a[4] * b[1] >>

\* Quaternion.conjugated()
conjugated(q) == << q[1], -q[2], -q[3], -q[4] >>

\* Quaternion @ Quaternion
quat_mul(a, b) == LET h == Hamilton(a, b) IN [k \in 1 .. 4 |-> h[k] \div 2]

\* Quaternion @ Vector: the vector rotated by the quaternion.
quat_rotate(q, v) ==
    LET h == Hamilton(Hamilton(q, << 0, v[1], v[2], v[3] >>), conjugated(q))
    IN << h[2] \div 4, h[3] \div 4, h[4] \div 4 >>

vec_add(a, b) == << a[1] + b[1], a[2] + b[2], a[3] + b[3] >>
vec_sub(a, b) == << a[1] - b[1], a[2] - b[2], a[3] - b[3] >>

\* The pose bone create_bones writes for a bone with TRS (t, r, s) and
\* edit bone (et, er).
\* Faulty variant: the location rotated by er instead of its conjugate.
pose_bone_location_unconjugated(b) == quat_rotate(b.er, vec_sub(b.t, b.et))

pose_bone_location(b) == quat_rotate(conjugated(b.er), vec_sub(b.t, b.et))

pose_bone_rotation(b) == quat_mul(conjugated(b.er), b.r)

set_pose_bone(b) ==
    [set |-> TRUE, location |-> pose_bone_location(b),
     rotation_quaternion |-> pose_bone_rotation(b), scale |-> b.s]

\* "BoneTRS = EditBone * PoseBone": the edit bone's rest transform (a
\* translation and a rotation, no scale) composed with the pose transform.
BoneTRS(b, p) ==
    [t |-> vec_add(b.et, quat_rotate(b.er, p.location)),
     r |-> quat_mul(b.er, p.rotation_quaternion),
     s |-> p.scale]

(* ------------------------------- actions ------------------------------- *)
Running == status = "running" /\ stack # <<>>

PoseUnchanged == UNCHANGED <<bone, pose>>

MeshesUnchanged == UNCHANGED <<meshes, blender_name>>

\* create_vnode on an Object-kind VNode: create_object, then either the
\* start of create_bones (armature) or the calls on the children.
CreateVnodeObject ==
    /\ Running /\ bones_pc = "none"
    /\ LET vnode_id == Head(stack)
           vnode == vnodes[vnode_id]
           r == create_object(vnode_id)
       IN /\ vnode.type = VNode_Object
          /\ visited' = Append(visited, vnode_id)
          /\ objects' = Append(objects, r.obj)
          /\ meshes' = r.meshes
          /\ blender_name' = r.blender_name
          /\ IF r.raised
             THEN /\ status' = "raised" /\ exc' = r.exc
                  /\ UNCHANGED <<vnodes, writes, bone_ids, stack, bones_pc>>
             ELSE /\ vnodes' = [vnodes EXCEPT ![vnode_id].blender_object = Len(objects) + 1]
                  /\ writes' = [writes EXCEPT ![vnode_id] = @ + 1]
                  /\ IF vnode.is_arma
                     THEN /\ bone_ids' = find_bones(vnodes, vnode_id)
                          /\ bones_pc' = "edit"
                          /\ UNCHANGED <<stack, status>>
                     ELSE /\ stack' = vnode.children \o Tail(stack)
                          /\ status' = IF stack' = <<>> THEN "done" ELSE "running"
                          /\ UNCHANGED <<bone_ids, bones_pc>>
                  /\ UNCHANGED exc
    /\ UNCHANGED <<gltf, edit_bones>>
    /\ PoseUnchanged

\* Faulty variant: the edit bones are created, their names are not recorded.
CreateEditBones_unnamed ==
    /\ Running /\ bones_pc = "edit"
    /\ edit_bones' = edit_bones \o
           [k \in 1 .. Len(bone_ids) |-> NewEditBone(bone_ids[k], Head(stack))]
    /\ bones_pc' = "parents"
    /\ UNCHANGED <<gltf, vnodes, objects, bone_ids, stack, visited, writes, status, exc>>
    /\ PoseUnchanged
    /\ MeshesUnchanged

\* create_bones, first loop: an edit bone for every id of bone_ids.
CreateEditBones ==
    /\ Running /\ bones_pc = "edit"
    /\ LET arma_id == Head(stack)
           blender_arma == objects[vnodes[arma_id].blender_object]
       IN IF blender_arma.data # "ARMATURE" /\ bone_ids # <<>>
          THEN /\ status' = "raised" /\ exc' = "AttributeError"  \* armature.edit_bones
               /\ UNCHANGED <<vnodes, edit_bones, bones_pc>>
          ELSE /\ edit_bones' = edit_bones \o
                      [k \in 1 .. Len(bone_ids) |-> NewEditBone(bone_ids[k], arma_id)]
               /\ vnodes' = [id \in DOMAIN vnodes |->
                                IF id \in Range(bone_ids)
                                THEN [vnodes[id] EXCEPT !.blender_bone_name = id]
                                ELSE vnodes[id]]
               /\ bones_pc' = "parents"
               /\ UNCHANGED <<status, exc>>
    /\ UNCHANGED <<gltf, objects, bone_ids, stack, visited, writes>>
    /\ PoseUnchanged
    /\ MeshesUnchanged

\* create_bones, second loop: "Set all bone parents".
SetBoneParents ==
    /\ Running /\ bones_pc = "parents"
    /\ edit_bones' = [k \in 1 .. Len(edit_bones) |->
                         IF edit_bones[k].name \in Range(bone_ids)
                         THEN EditBoneParent(edit_bones[k]) ELSE edit_bones[k]]
    /\ bones_pc' = "pose"
    /\ UNCHANGED <<gltf, vnodes, objects, bone_ids, stack, visited, writes, status, exc>>
    /\ PoseUnchanged
    /\ MeshesUnchanged

\* create_bones, third loop: the pose bones; create_vnode then goes on with
\* the armature's children.
SetPoseBones ==
    /\ Running /\ bones_pc = "pose"
    /\ edit_bones' = [k \in 1 .. Len(edit_bones) |->
                         IF edit_bones[k].name \in Range(bone_ids)
                         THEN [edit_bones[k] EXCEPT !.posed = TRUE] ELSE edit_bones[k]]
    /\ bones_pc' = "none"
    /\ stack' = vnodes[Head(stack)].children \o Tail(stack)
    /\ status' = IF stack' = <<>> THEN "done" ELSE "running"
    /\ UNCHANGED <<gltf, vnodes, objects, bone_ids, visited, writes, exc>>
    /\ PoseUnchanged
    /\ MeshesUnchanged

\* Faulty variant: the Bone branch clears the handle, as the DummyRoot branch does.
CreateVnodeBone_writes ==
    /\ Running /\ bones_pc = "none"
    /\ vnodes[Head(stack)].type = VNode_Bone
    /\ visited' = Append(visited, Head(stack))
    /\ vnodes' = [vnodes EXCEPT ![Head(stack)].blender_object = None]
    /\ writes' = [writes EXCEPT ![Head(stack)] = @ + 1]
    /\ stack' = vnodes[Head(stack)].children \o Tail(stack)
    /\ status' = IF stack' = <<>> THEN "done" ELSE "running"
    /\ UNCHANGED <<gltf, objects, edit_bones, bone_ids, bones_pc, exc>>
    /\ PoseUnchanged
    /\ MeshesUnchanged

\* create_vnode on a Bone-kind VNode: "These are created with their armature".
CreateVnodeBone ==
    /\ Running /\ bones_pc = "none"
    /\ vnodes[Head(stack)].type = VNode_Bone
    /\ visited' = Append(visited, Head(stack))
    /\ stack' = vnodes[Head(stack)].children \o Tail(stack)
    /\ status' = IF stack' = <<>> THEN "done" ELSE "running"
    /\ UNCHANGED <<gltf, vnodes, objects, edit_bones, bone_ids, bones_pc, writes, exc>>
    /\ PoseUnchanged
    /\ MeshesUnchanged

\* create_vnode on the DummyRoot: "Don't actually create this".
CreateVnodeDummyRoot ==
    /\ Running /\ bones_pc = "none"
    /\ vnodes[Head(stack)].type = VNode_DummyRoot
    /\ visited' = Append(visited, Head(stack))
    /\ vnodes' = [vnodes EXCEPT ![Head(stack)].blender_object = None]
    /\ writes' = [writes EXCEPT ![Head(stack)] = @ + 1]
    /\ stack' = vnodes[Head(stack)].children \o Tail(stack)
    /\ status' = IF stack' = <<>> THEN "done" ELSE "running"
    /\ UNCHANGED <<gltf, objects, edit_bones, bone_ids, bones_pc, exc>>
    /\ PoseUnchanged
    /\ MeshesUnchanged

\* pymesh.blender_name of every mesh before the first create_mesh_object.
NoMeshesCached == [m \in 0 .. (NumMeshes - 1) |-> <<>>]

NoBone == [t |-> <<0, 0, 0>>, r |-> <<2, 0, 0, 0>>, s |-> <<1, 1, 1>>,
           et |-> <<0, 0, 0>>, er |-> <<2, 0, 0, 0>>]
NoPose == [set |-> FALSE, location |-> <<0, 0, 0>>,
           rotation_quaternion |-> <<2, 0, 0, 0>>, scale |-> <<1, 1, 1>>]

\* The state after the builder ran and before the driver calls
\* create_vnode on the entry point.
Init ==
    /\ \E par \in ParentMaps,
          js \in {S \in SUBSET NodeIds : Cardinality(S) <= MaxJoints} :
         LET tree == MakeDocument(par, Ordered(js), <<>>)
             marks == mark_bones_and_armas(tree)
         IN /\ SkinOk(tree, marks)
            /\ \E at \in {S \in SUBSET NodeIds : Cardinality(S) <= MaxAttached} :
                 \E a \in (IF at = {} THEN {NoAttachment} ELSE Attachments) :
                    LET att == [i \in at |-> a]
                    IN /\ AttachmentsOk(marks, att)
                       /\ gltf = MakeDocument(par, Ordered(js), att)
                       /\ vnodes = build_vnodes(gltf, marks)
    /\ stack = << EntryPoint(gltf) >>
    /\ writes = [id \in DOMAIN vnodes |-> 0]
    /\ objects = <<>>
    /\ edit_bones = <<>>
    /\ bone_ids = <<>>
    /\ bones_pc = "none"
    /\ visited = <<>>
    /\ status = "running"
    /\ exc = "none"
    /\ meshes = <<>>
    /\ blender_name = NoMeshesCached
    /\ bone = NoBone
    /\ pose = NoPose

Next ==
    \/ CreateVnodeObject
    \/ CreateEditBones
    \/ SetBoneParents
    \/ SetPoseBones
    \/ CreateVnodeBone
    \/ CreateVnodeDummyRoot

Spec == Init /\ [][Next]_vars

(* ------------------------- the pose computation ------------------------ *)
Vectors == [1 .. 3 -> 0 .. MaxCoord]

NodeRotations == { <<2, 0, 0, 0>>, <<0, 2, 0, 0>>, <<1, 1, 1, 1>>, <<1, -1, 1, -1>> }

Scales == { <<1, 1, 1>>, <<2, 1, 3>> }

\* One bone of an armature, with any TRS and any edit-bone transform.
InitPose ==
    /\ bone \in [t : Vectors, r : NodeRotations, s : Scales, et : Vectors, er : Quaternions]
    /\ pose = NoPose
    /\ gltf = MakeDocument([i \in NodeIds |-> None], <<>>, <<>>)
    /\ vnodes = compute_vnodes(gltf)
    /\ stack = <<>>
    /\ writes = [id \in DOMAIN vnodes |-> 0]
    /\ objects = <<>>
    /\ edit_bones = <<>>
    /\ bone_ids = <<>>
    /\ bones_pc = "pose"
    /\ visited = <<>>
    /\ status = "running"
    /\ exc = "none"
    /\ meshes = <<>>
    /\ blender_name = NoMeshesCached

\* One iteration of the third loop of create_bones.
SetPoseBone ==
    /\ ~pose.set
    /\ pose' = set_pose_bone(bone)
    /\ UNCHANGED <<gltf, vnodes, objects, edit_bones, bone_ids, stack, bones_pc,
                   visited, writes, status, exc, meshes, blender_name, bone>>

NextPose == SetPoseBone

SpecPose == InitPose /\ [][NextPose]_vars

(* --------------------------- the mesh cache ---------------------------- *)
\* gltf.data.meshes[m] of a mesh with one shape key.
ShapeKeyMesh == [shapekey_names |-> << "Key" >>, weights |-> NoneList]

\* The nodes that reference meshes: those after an armature (node 0) and
\* its bone (node 1), the joint of the skin.
MeshNodes == 2 .. (NumNodes - 1)

\* What a mesh node references: the first or the last mesh, the skin or
\* none, weights (none, an empty list, one weight), animated or not.
MeshAttachments ==
    {[NoAttachment EXCEPT !.mesh = m, !.skin = s, !.weights = w, !.weight_animation = a] :
        m \in {0, NumMeshes - 1}, s \in {None, 0},
        w \in {NoneList, List(<<>>), List(<<1>>)}, a \in BOOLEAN}

\* Any such document, before the first create_mesh_object call.
InitMesh ==
    /\ \E att \in [MeshNodes -> MeshAttachments], sk \in SUBSET {0, NumMeshes - 1} :
          gltf = [MakeDocument([i \in NodeIds |-> IF i = 0 THEN None ELSE 0], <<1>>, att)
                     EXCEPT !.meshes = [m \in 1 .. NumMeshes |->
                                IF (m - 1) \in sk THEN ShapeKeyMesh ELSE PlainMesh]]
    /\ vnodes = compute_vnodes(gltf)
    /\ stack = <<>>
    /\ writes = [id \in DOMAIN vnodes |-> 0]
    /\ objects = <<>>
    /\ edit_bones = <<>>
    /\ bone_ids = <<>>
    /\ bones_pc = "none"
    /\ visited = <<>>
    /\ status = "running"
    /\ exc = "none"
    /\ meshes = <<>>
    /\ blender_name = NoMeshesCached
    /\ bone = NoBone
    /\ pose = NoPose

\* One create_mesh_object call, on any mesh node not yet given its object.
CreateMeshObject ==
    \E id \in MeshNodes :
        /\ \A h \in 1 .. Len(objects) : objects[h].vnode # id
        /\ LET r == create_mesh_object(id)
           IN /\ objects' = Append(objects, r.obj)
              /\ meshes' = r.meshes
              /\ blender_name' = r.blender_name
              /\ exc' = r.exc
        /\ UNCHANGED <<gltf, vnodes, edit_bones, bone_ids, stack, bones_pc, visited,
                       writes, status>>
        /\ PoseUnchanged

NextMesh == CreateMeshObject

SpecMesh == InitMesh /\ [][NextMesh]_vars

(* ------------------------------- claims -------------------------------- *)
Last(s) == s[Len(s)]

\* The run ended with an exception raised while create_vnode was on id.
RaisedAt(id) == status = "raised" /\ visited # <<>> /\ Last(visited) = id

\* The host object stored in a VNode is the one created for it.
Materialized(id) ==
    /\ vnodes[id].blender_object # None
    /\ objects[vnodes[id].blender_object].vnode = id
    /\ objects[vnodes[id].blender_object].linked

ObjectOf(id) == objects[vnodes[id].blender_object]

\* The ids below id in depth-first pre-order, id first, children in their
\* stored order.
RECURSIVE Preorder(_, _)
RECURSIVE PreorderOfAll(_, _)
Preorder(vn, id) == <<id>> \o PreorderOfAll(vn, vn[id].children)

PreorderOfAll(vn, ids) ==
    IF ids = <<>> THEN <<>> ELSE Preorder(vn, Head(ids)) \o PreorderOfAll(vn, Tail(ids))

\* The proper ancestors of a VNode, following the parent links.
RECURSIVE VAncestors(_)
VAncestors(id) ==
    IF vnodes[id].parent = None THEN {}
    ELSE {vnodes[id].parent} \cup VAncestors(vnodes[id].parent)

OutOfRangeMesh(id) == gltf.nodes[id].mesh # None /\ gltf.nodes[id].mesh >= NumMeshes
OutOfRangeSkin(id) ==
    /\ gltf.nodes[id].mesh # None /\ ~OutOfRangeMesh(id)
    /\ gltf.nodes[id].skin # None /\ gltf.nodes[id].skin >= Len(gltf.skins)
OutOfRangeCamera(id) == gltf.nodes[id].camera # None /\ gltf.nodes[id].camera >= NumCameras
OutOfRangeLight(id) == gltf.nodes[id].light # None /\ gltf.nodes[id].light >= NumLights

\* C1: a node whose mesh, skin, camera or light index is out of range is
\* materialized without raising: once create_vnode has been on it, the run
\* has not raised there and the node has its host object.
C1_OutOfRangeDegrades ==
    \A id \in NodeIds :
        ( /\ vnodes[id].type = VNode_Object
          /\ id \in Range(visited)
          /\ \/ OutOfRangeMesh(id) \/ OutOfRangeSkin(id)
             \/ OutOfRangeCamera(id) \/ OutOfRangeLight(id) )
        => ~RaisedAt(id) /\ Materialized(id)

\* A mesh node whose skin index is valid and whose skin has no joints.
EmptySkinMesh(id) ==
    /\ vnodes[id].type = VNode_Object
    /\ gltf.nodes[id].mesh # None /\ ~OutOfRangeMesh(id)
    /\ gltf.nodes[id].skin # None /\ gltf.nodes[id].skin < Len(gltf.skins)
    /\ gltf.skins[gltf.nodes[id].skin + 1].joints = <<>>

\* C2: a skin with an empty joint list fails for that mesh's skinning only:
\* the mesh node is imported as an unskinned mesh object and the run is not
\* aborted there.
C2_EmptySkinConfined ==
    \A id \in NodeIds :
        (EmptySkinMesh(id) /\ id \in Range(visited))
        => /\ ~RaisedAt(id)
           /\ Materialized(id)
           /\ ObjectOf(id).data = "MESH"
           /\ ObjectOf(id).modifiers = <<>>

\* C3: when create_vnode(root) has ended, it has been on every node
\* reachable from the root exactly once, in depth-first pre-order with the
\* children in their stored order.
C3_EveryNodeOnceInPreorder ==
    status # "running" => visited = Preorder(vnodes, EntryPoint(gltf))

DummyRoots == {id \in DOMAIN vnodes : vnodes[id].type = VNode_DummyRoot}

\* C4: a scene whose root count is not exactly one gets exactly one
\* DummyRoot, whose children are the scene roots in their order and which
\* is the parent of every scene root; a scene with exactly one root gets no
\* DummyRoot.
C4_DummyRootIffNotOneRoot ==
    IF Len(gltf.scene) # 1
    THEN /\ Cardinality(DummyRoots) = 1
         /\ \A d \in DummyRoots :
               /\ vnodes[d].children = gltf.scene
               /\ \A k \in 1 .. Len(gltf.scene) : vnodes[gltf.scene[k]].parent = d
    ELSE DummyRoots = {}

\* Three scene roots under one DummyRoot, all of them created.
C4_Witness ==
    /\ status = "done"
    /\ Len(gltf.scene) = 3 /\ gltf.scene[1] > gltf.scene[3]
    /\ Len(visited) = NumNodes + 1
    /\ Cardinality(DummyRoots) = 1
    /\ \A d \in DummyRoots : Len(vnodes[d].children) = 3

\* C5: once create_vnode has ended, the DummyRoot's blender_object is None,
\* no host object was created for it, and each of its children has a linked
\* host object with no parent.
C5_DummyRootNotMaterialized ==
    status # "running" =>
        \A d \in DummyRoots :
            /\ vnodes[d].blender_object = None
            /\ \A h \in 1 .. Len(objects) : objects[h].vnode # d
            /\ \A k \in 1 .. Len(vnodes[d].children) :
                  /\ Materialized(vnodes[d].children[k])
                  /\ ObjectOf(vnodes[d].children[k]).parent = None

\* The VNodes that list id among their children.
ParentsOf(id) == {p \in DOMAIN vnodes : Contains(vnodes[p].children, id)}

IsLowestCommonAncestor(a, joints) ==
    /\ \A k \in 1 .. Len(joints) : a \in VAncestors(joints[k])
    /\ \A b \in DOMAIN vnodes :
          (b # a /\ \A k \in 1 .. Len(joints) : b \in VAncestors(joints[k]))
          => b \in VAncestors(a)

IsBone(id) == vnodes[id].type = VNode_Bone

C10_WrittenExactlyOnce ==
    status = "done" => \A id \in DOMAIN vnodes : writes[id] = 1

\* C10, amended: blender_object is written at most once and keeps the value
\* written; it is written when create_vnode is on an Object-kind node (the
\* object created for it) or on the DummyRoot (None), and never for a Bone.
C10_WrittenOnceUnlessBone ==
    \A id \in DOMAIN vnodes :
        /\ writes[id] <= 1
        /\ vnodes[id].type = VNode_Bone => writes[id] = 0 /\ vnodes[id].blender_object = None
        /\ vnodes[id].type = VNode_DummyRoot =>
              /\ writes[id] = (IF Contains(visited, id) THEN 1 ELSE 0)
              /\ vnodes[id].blender_object = None
        /\ vnodes[id].type = VNode_Object =>
              /\ writes[id] = (IF Contains(visited, id) /\ ~RaisedAt(id) THEN 1 ELSE 0)
              /\ (writes[id] = 1 => Materialized(id))
              /\ (writes[id] = 0 => vnodes[id].blender_object = None)

\* A finished run over a DummyRoot, an armature and its bone.
C10_Witness ==
    /\ status = "done"
    /\ \E id \in DOMAIN vnodes : vnodes[id].type = VNode_Bone /\ id \in Range(visited)
    /\ \E id \in DOMAIN vnodes : vnodes[id].type = VNode_Object /\ writes[id] = 1
    /\ \E id \in DOMAIN vnodes : vnodes[id].type = VNode_DummyRoot /\ writes[id] = 1

\* C9: for any bone, the edit bone's rest transform composed with the pose
\* transform set by create_bones is the node's original TRS (t, r, s).
C9_PoseReproducesTRS ==
    pose.set => BoneTRS(bone, pose) = [t |-> bone.t, r |-> bone.r, s |-> bone.s]

\* A bone whose edit bone is rotated and displaced, with its pose bone set.
C9_Witness ==
    /\ pose.set
    /\ bone.er = <<1, 1, 1, 1>> /\ bone.r = <<0, 2, 0, 0>>
    /\ bone.et = <<1, 0, 0>> /\ bone.t = <<0, 1, 1>>
    /\ pose.location # vec_sub(bone.t, bone.et)
    /\ pose.rotation_quaternion # bone.r

\* C11: a VNode with is_arma set has no mesh, camera or light association,
\* and whenever create_vnode has invoked create_bones on a node, the object
\* create_object built and stored for that node is an armature object.
C11_BonesOnArmatureObject ==
    /\ \A id \in DOMAIN vnodes :
          vnodes[id].is_arma =>
              /\ vnodes[id].mesh_node_idx = None
              /\ vnodes[id].camera_node_idx = None
              /\ vnodes[id].light_node_idx = None
    /\ bones_pc # "none" =>
          /\ vnodes[Head(stack)].is_arma
          /\ Materialized(Head(stack))
          /\ ObjectOf(Head(stack)).data = "ARMATURE"
    /\ exc # "AttributeError"

\* create_bones running on an armature whose glTF node references a mesh.
C11_Witness ==
    /\ bones_pc = "parents"
    /\ bone_ids # <<>>
    /\ gltf.nodes[Head(stack)].mesh = 0
    /\ ObjectOf(Head(stack)).data = "ARMATURE"

\* The edit bone of the given name has gone through all of create_bones.
BoneCompleted(name) ==
    \E k \in 1 .. Len(edit_bones) : edit_bones[k].name = name /\ edit_bones[k].posed

\* C12: what create_object read from the parent of the node it was creating
\* had been written before: an object under an Object-kind parent got that
\* parent's object, and an object under a Bone-kind parent got the object
\* of the bone's armature and the bone's name, the armature's create_bones
\* having completed.
C12_ParentWrittenBeforeRead ==
    \A h \in 1 .. Len(objects) :
        LET id == objects[h].vnode
            parent == vnodes[id].parent
        IN (objects[h].linked /\ parent # None) =>
            /\ vnodes[parent].type = VNode_Object =>
                  /\ objects[h].parent # None
                  /\ objects[h].parent < h
                  /\ objects[objects[h].parent].vnode = parent
            /\ vnodes[parent].type = VNode_Bone =>
                  /\ objects[h].parent # None
                  /\ objects[h].parent < h
                  /\ objects[objects[h].parent].vnode = vnodes[parent].bone_arma
                  /\ objects[h].parent_type = "BONE"
                  /\ objects[h].parent_bone # None
                  /\ objects[h].parent_bone = vnodes[parent].blender_bone_name
                  /\ BoneCompleted(objects[h].parent_bone)

\* An object parented to a bone of an armature created before it, and an
\* object parented to another object.
C12_Witness ==
    /\ \E h \in 1 .. Len(objects) :
          /\ objects[h].linked
          /\ objects[h].parent_type = "BONE"
          /\ objects[h].parent_bone # None
          /\ objects[objects[h].parent].data = "ARMATURE"
    /\ \E h \in 1 .. Len(objects) :
          /\ objects[h].linked
          /\ objects[h].parent_type = "OBJECT"
          /\ objects[h].parent # None

\* The mesh objects made so far.
MeshObjects == {h \in 1 .. Len(objects) : objects[h].data = "MESH"}

HasShapeKeys(pynode) == gltf.meshes[pynode.mesh + 1].shapekey_names # <<>>

\* The node's mesh goes through the cache: no shape keys, or shape keys and
\* no weight animation.
Cacheable(pynode) == ~HasShapeKeys(pynode) \/ ~pynode.weight_animation

\* Two nodes of one mesh have the same key: the same skin and, for a mesh
\* with shape keys, the same weights (no weights counting as an empty list).
SameKey(n1, n2) ==
    /\ n1.mesh = n2.mesh
    /\ n1.skin = n2.skin
    /\ HasShapeKeys(n1) => or_empty(n1.weights) = or_empty(n2.weights)

\* C13: over any sequence of create_mesh_object calls, two mesh objects have
\* the same mesh datablock exactly when their nodes have the same mesh index
\* and the same key and go through the cache; every datablock created was
\* created for the object that first needed it, with the node's mesh and
\* skin; and the mesh of a node with shape keys and weight animation was
\* created by its own call and is in no cache.
C13_MeshCreatedOncePerKey ==
    /\ \A h1, h2 \in MeshObjects :
          LET n1 == gltf.nodes[objects[h1].vnode]
              n2 == gltf.nodes[objects[h2].vnode]
          IN h1 # h2 =>
                ( objects[h1].mesh = objects[h2].mesh
                  <=> (Cacheable(n1) /\ Cacheable(n2) /\ SameKey(n1, n2)) )
    /\ \A k \in 1 .. Len(meshes) :
          \E h \in MeshObjects :
              /\ objects[h].mesh = k
              /\ objects[h].vnode = meshes[k].node
              /\ \A h2 \in MeshObjects : objects[h2].mesh = k => h <= h2
    /\ \A h \in MeshObjects :
          LET n == gltf.nodes[objects[h].vnode]
              me == meshes[objects[h].mesh]
          IN /\ me.mesh = n.mesh /\ me.skin = n.skin
             /\ ~Cacheable(n) =>
                   /\ me.node = objects[h].vnode
                   /\ \A m \in DOMAIN blender_name :
                         \A key \in DOMAIN blender_name[m] :
                             blender_name[m][key] # objects[h].mesh

\* Two skinned nodes of a mesh with shape keys, one without weights and one
\* with an empty list of them, share the mesh the first call created.
C13_Witness ==
    /\ Len(objects) = 2 /\ Len(meshes) = 1
    /\ objects[1].mesh = 1 /\ objects[2].mesh = 1
    /\ HasShapeKeys(gltf.nodes[objects[1].vnode])
    /\ gltf.nodes[objects[1].vnode].weights # gltf.nodes[objects[2].vnode].weights
    /\ gltf.nodes[objects[1].vnode].skin = 0

\* create_bones has set the parents of the armature this edit bone is in.
ParentsSet(b) == b.posed \/ (bones_pc = "pose" /\ b.arma = Head(stack))

\* The Bone-kind VNodes of an armature.
BonesOf(arma_id) ==
    {id \in DOMAIN vnodes : vnodes[id].type = VNode_Bone /\ vnodes[id].bone_arma = arma_id}

\* C14: once create_bones has set the bone parents of an armature, a bone has
\* a parent bone exactly when its VNode parent is a Bone, the parent bone
\* being the one created for that VNode in the same armature, and a bone
\* directly under the armature node has none; no bone has a parent before
\* that, and a bone has a parent only when all the bones of its armature
\* exist, each VNode having one edit bone at most.
C14_BoneParentsMirrorVNodes ==
    /\ \A k, l \in 1 .. Len(edit_bones) : edit_bones[k].name = edit_bones[l].name => k = l
    /\ \A k \in 1 .. Len(edit_bones) :
          LET b == edit_bones[k]
              vnode == vnodes[b.name]
              parent_vnode == vnodes[vnode.parent]
          IN /\ vnode.type = VNode_Bone /\ vnode.bone_arma = b.arma
             /\ vnode.blender_bone_name = b.name
             /\ ~ParentsSet(b) => b.parent = None
             /\ b.parent # None =>
                   \A id \in BonesOf(b.arma) :
                       \E l \in 1 .. Len(edit_bones) : edit_bones[l].name = id
             /\ ParentsSet(b) =>
                   /\ b.parent # None <=> parent_vnode.type = VNode_Bone
                   /\ vnode.parent = b.arma => b.parent = None
                   /\ b.parent # None =>
                         /\ b.parent = parent_vnode.blender_bone_name
                         /\ \E l \in 1 .. Len(edit_bones) :
                               /\ edit_bones[l].name = b.parent
                               /\ edit_bones[l].name = vnode.parent
                               /\ edit_bones[l].arma = b.arma

\* A finished run over an armature with a bone directly under it and a bone
\* under that bone.
C14_Witness ==
    /\ status = "done"
    /\ \E k, l \in 1 .. Len(edit_bones) :
          /\ edit_bones[k].parent = None /\ edit_bones[k].posed
          /\ vnodes[edit_bones[k].name].parent = edit_bones[k].arma
          /\ edit_bones[l].parent = edit_bones[k].name
====
